---- MODULE Spec2Model ----
(***************************************************************************)
(* Model of the role-based permission layer of the books REST API          *)
(* (books/api/permissions.py, books/api/views.py) and of the account and   *)
(* cart views of the shop (shop/views.py, shop/forms.py, shop/models.py),  *)
(* and of the delete pages of the books web interface (books/views.py).    *)
(***************************************************************************)
EXTENDS Integers, Sequences, FiniteSets, TLC

VARIABLES books_db, api_last, web_last, perm_in, perm_last

\* the shop: user rows, mailed tokens, catalogue, carts, the browser session,
\* the last response; activated and added record what activate and
\* add_to_cart have done so far
VARIABLES users, tokens, activated, Product, Cart, CartItem, session, added, shop_last

api_vars == <<books_db, api_last, web_last>>
perm_vars == <<perm_in, perm_last>>
account_vars == <<users, tokens, activated>>
cart_vars == <<Product, Cart, CartItem, session, added>>
shop_vars == <<users, tokens, activated, Product, Cart, CartItem, session, added, shop_last>>
vars == <<books_db, api_last, web_last, perm_in, perm_last,
          users, tokens, activated, Product, Cart, CartItem, session, added, shop_last>>

(***************************************************************************)
(* Bounds.                                                                 *)
(***************************************************************************)
\* primary keys of the books tables range over 1..MaxPk
MaxPk == 2
\* total number of rows kept in the books tables
MaxRows == 3

Pks == 1..MaxPk
NoPk == 0

(***************************************************************************)
(* Requesters.  request.user is either Django's AnonymousUser or a user    *)
(* row; a user row may or may not carry a `role` attribute (the permission *)
(* classes test hasattr(request.user, 'role')).                            *)
(***************************************************************************)
Roles == {"admin", "manager", "user"}

AnonymousUser ==
    [id |-> "anon", is_authenticated |-> FALSE, has_role |-> FALSE, role |-> "none"]

AuthUser(i, r) ==
    [id |-> i, is_authenticated |-> TRUE, has_role |-> TRUE, role |-> r]

RequestUsers ==
    { AnonymousUser,
      AuthUser("alice", "admin"),
      AuthUser("bob", "manager"),
      AuthUser("carol", "user"),
      AuthUser("erin", "admin"),
      [id |-> "dave", is_authenticated |-> TRUE, has_role |-> FALSE, role |-> "none"] }

\* truth value of a user object in `request.user and ...`
Truthy(user) == user \in RequestUsers

Methods == {"GET", "HEAD", "OPTIONS", "POST", "PUT", "PATCH", "DELETE"}
SAFE_METHODS == {"GET", "HEAD", "OPTIONS"}

(***************************************************************************)
(* Permission classes.  `a and b and c` is modelled by its truth value,    *)
(* which is what the framework tests.                                      *)
(***************************************************************************)
\* mutant: the role test also lets a manager through
IsAdminOrReadOnly_ManagerToo(request) ==
    IF request.method \in SAFE_METHODS
    THEN TRUE
    ELSE /\ Truthy(request.user)
         /\ request.user.is_authenticated
         /\ request.user.has_role
         /\ request.user.role \in {"admin", "manager"}

IsAdminOrReadOnly_has_permission(request) ==
    IF request.method \in SAFE_METHODS
    THEN TRUE
    ELSE /\ Truthy(request.user)
         /\ request.user.is_authenticated
         /\ request.user.has_role
         /\ request.user.role = "admin"

\* mutant: DELETE is not singled out and falls under the edit rule
IsManagerOrReadOnly_DeleteAsEdit(request) ==
    IF request.method \in SAFE_METHODS
    THEN TRUE
    ELSE /\ Truthy(request.user)
         /\ request.user.is_authenticated
         /\ request.user.has_role
         /\ request.user.role \in {"admin", "manager"}

\* mutant: creation and editing test the role of a plain authenticated user
IsManagerOrReadOnly_AnyRoleEdits(request) ==
    IF request.method \in SAFE_METHODS
    THEN TRUE
    ELSE IF request.method = "DELETE"
         THEN /\ Truthy(request.user)
              /\ request.user.is_authenticated
              /\ request.user.has_role
              /\ request.user.role = "admin"
         ELSE /\ Truthy(request.user)
              /\ request.user.is_authenticated
              /\ request.user.has_role

IsManagerOrReadOnly_has_permission(request) ==
    IF request.method \in SAFE_METHODS
    THEN TRUE
    ELSE IF request.method = "DELETE"
         THEN /\ Truthy(request.user)
              /\ request.user.is_authenticated
              /\ request.user.has_role
              /\ request.user.role = "admin"
         ELSE /\ Truthy(request.user)
              /\ request.user.is_authenticated
              /\ request.user.has_role
              /\ request.user.role \in {"admin", "manager"}

\* An object carries each of the attributes user, created_by, owner or not
\* ("absent"); a present attribute is a user row or None ("null").
OwnerValues == {"absent", "null", "alice", "bob", "carol"}
Objects == [user : OwnerValues, created_by : OwnerValues, owner : OwnerValues]
NoObject == [user |-> "absent", created_by |-> "absent", owner |-> "absent"]

hasattr(obj, name) ==
    CASE name = "user" -> obj.user # "absent"
      [] name = "created_by" -> obj.created_by # "absent"
      [] name = "owner" -> obj.owner # "absent"

\* `value == request.user`: model rows are equal when their keys are equal;
\* AnonymousUser equals only another AnonymousUser, None equals no user.
SameUser(value, user) ==
    /\ user.is_authenticated
    /\ value = user.id

\* mutant: HEAD and OPTIONS are not treated as reads
IsOwnerOrReadOnly_GetOnly(request, obj) ==
    IF request.method = "GET"
    THEN TRUE
    ELSE IF hasattr(obj, "user")
         THEN SameUser(obj.user, request.user)
         ELSE IF hasattr(obj, "created_by")
              THEN SameUser(obj.created_by, request.user)
              ELSE IF hasattr(obj, "owner")
                   THEN SameUser(obj.owner, request.user)
                   ELSE /\ Truthy(request.user)
                        /\ request.user.is_authenticated
                        /\ request.user.has_role
                        /\ request.user.role = "admin"

\* mutant: an administrator may change any object, owned or not
IsOwnerOrReadOnly_AdminOverride(request, obj) ==
    IF request.method \in SAFE_METHODS
    THEN TRUE
    ELSE \/ /\ Truthy(request.user)
            /\ request.user.is_authenticated
            /\ request.user.has_role
            /\ request.user.role = "admin"
         \/ IF hasattr(obj, "user")
            THEN SameUser(obj.user, request.user)
            ELSE IF hasattr(obj, "created_by")
                 THEN SameUser(obj.created_by, request.user)
                 ELSE /\ hasattr(obj, "owner")
                      /\ SameUser(obj.owner, request.user)

IsOwnerOrReadOnly_has_object_permission(request, obj) ==
    IF request.method \in SAFE_METHODS
    THEN TRUE
    ELSE IF hasattr(obj, "user")
         THEN SameUser(obj.user, request.user)
         ELSE IF hasattr(obj, "created_by")
              THEN SameUser(obj.created_by, request.user)
              ELSE IF hasattr(obj, "owner")
                   THEN SameUser(obj.owner, request.user)
                   ELSE /\ Truthy(request.user)
                        /\ request.user.is_authenticated
                        /\ request.user.has_role
                        /\ request.user.role = "admin"

\* rest_framework.permissions.IsAuthenticated, named by ReviewViewSet
IsAuthenticated_has_permission(request) ==
    Truthy(request.user) /\ request.user.is_authenticated

PermissionClasses ==
    {"IsAdminOrReadOnly", "IsManagerOrReadOnly", "IsOwnerOrReadOnly", "IsAuthenticated"}

\* the framework's call of one permission class on a request
has_permission(cls, request) ==
    CASE cls = "IsAdminOrReadOnly" -> IsAdminOrReadOnly_has_permission(request)
      [] cls = "IsManagerOrReadOnly" -> IsManagerOrReadOnly_has_permission(request)
      [] cls = "IsAuthenticated" -> IsAuthenticated_has_permission(request)
      [] OTHER -> TRUE

(***************************************************************************)
(* Evaluation of one permission check: perm_in is the request and object   *)
(* it is called on, perm_last the call and its result.                     *)
(***************************************************************************)
PermInputs ==
    [cls : {"IsAdminOrReadOnly", "IsManagerOrReadOnly"}, method : Methods,
     user : RequestUsers, obj : {NoObject}]
    \cup [cls : {"IsOwnerOrReadOnly"}, method : Methods,
          user : RequestUsers, obj : Objects]

NoCheck == [cls |-> "none", result |-> FALSE]

CheckAdminOrReadOnly ==
    /\ perm_last = NoCheck
    /\ perm_in.cls = "IsAdminOrReadOnly"
    /\ perm_last' = [cls |-> perm_in.cls,
                     result |-> IsAdminOrReadOnly_has_permission(
                                    [method |-> perm_in.method, user |-> perm_in.user])]
    /\ UNCHANGED perm_in

CheckManagerOrReadOnly ==
    /\ perm_last = NoCheck
    /\ perm_in.cls = "IsManagerOrReadOnly"
    /\ perm_last' = [cls |-> perm_in.cls,
                     result |-> IsManagerOrReadOnly_has_permission(
                                    [method |-> perm_in.method, user |-> perm_in.user])]
    /\ UNCHANGED perm_in

CheckOwnerOrReadOnly ==
    /\ perm_last = NoCheck
    /\ perm_in.cls = "IsOwnerOrReadOnly"
    /\ perm_last' = [cls |-> perm_in.cls,
                     result |-> IsOwnerOrReadOnly_has_object_permission(
                                    [method |-> perm_in.method, user |-> perm_in.user],
                                    perm_in.obj)]
    /\ UNCHANGED perm_in

(***************************************************************************)
(* The books tables, as the API sees them.  A book row names its publisher *)
(* and (optionally) its category, a review row names its book; every one   *)
(* of these foreign keys is on_delete=CASCADE.                             *)
(***************************************************************************)
NullPk == 0
BookRows == [pk : Pks, publisher : Pks, category : Pks \cup {NullPk}]
ReviewRows == [pk : Pks, book : Pks]

EmptyDb ==
    [Publisher |-> {}, Store |-> {}, Category |-> {}, Book |-> {}, Review |-> {}]

PkSet(db, model) ==
    CASE model = "Publisher" -> db.Publisher
      [] model = "Store" -> db.Store
      [] model = "Category" -> db.Category
      [] model = "Book" -> {r.pk : r \in db.Book}
      [] model = "Review" -> {r.pk : r \in db.Review}

RowCount(db) ==
    Cardinality(db.Publisher) + Cardinality(db.Store) + Cardinality(db.Category)
    + Cardinality(db.Book) + Cardinality(db.Review)

\* Model.delete(): the row goes, and with it every row that references it
DeleteCascade(db, model, pk) ==
    CASE model = "Publisher" ->
            LET gone == {b \in db.Book : b.publisher = pk}
            IN [db EXCEPT !.Publisher = @ \ {pk},
                          !.Book = @ \ gone,
                          !.Review = {r \in @ : r.book \notin {b.pk : b \in gone}}]
      [] model = "Category" ->
            LET gone == {b \in db.Book : b.category = pk}
            IN [db EXCEPT !.Category = @ \ {pk},
                          !.Book = @ \ gone,
                          !.Review = {r \in @ : r.book \notin {b.pk : b \in gone}}]
      [] model = "Book" ->
            [db EXCEPT !.Book = {b \in @ : b.pk # pk},
                       !.Review = {r \in @ : r.book # pk}]
      [] model = "Store" -> [db EXCEPT !.Store = @ \ {pk}]
      [] model = "Review" -> [db EXCEPT !.Review = {r \in @ : r.pk # pk}]

(***************************************************************************)
(* The viewsets and their routes.                                          *)
(***************************************************************************)
ViewSets ==
    {"BookViewSet", "PublisherViewSet", "StoreViewSet", "ReviewViewSet", "CategoryViewSet"}

\* queryset of each viewset
ModelOf(view) ==
    CASE view = "BookViewSet" -> "Book"
      [] view = "PublisherViewSet" -> "Publisher"
      [] view = "StoreViewSet" -> "Store"
      [] view = "ReviewViewSet" -> "Review"
      [] view = "CategoryViewSet" -> "Category"

\* permission_classes attribute of each viewset
permission_classes(view) ==
    CASE view = "BookViewSet" -> {"IsManagerOrReadOnly"}
      [] view = "PublisherViewSet" -> {"IsManagerOrReadOnly"}
      [] view = "StoreViewSet" -> {"IsManagerOrReadOnly"}
      [] view = "ReviewViewSet" -> {"IsAdminOrReadOnly"}
      [] view = "CategoryViewSet" -> {"IsManagerOrReadOnly"}

\* mutant: no special case for create
ReviewViewSet_get_permissions_NoCreateCase(action) ==
    {"IsAdminOrReadOnly"}

\* ReviewViewSet.get_permissions
ReviewViewSet_get_permissions(action) ==
    IF action = "create"
    THEN {"IsAuthenticated"}
    ELSE {"IsAdminOrReadOnly"}

\* the permission classes in force for one action of one viewset
get_permissions(view, action) ==
    IF view = "ReviewViewSet"
    THEN ReviewViewSet_get_permissions(action)
    ELSE permission_classes(view)

Routes == {"list", "detail"}

\* router.register: the action a method is bound to on the list route and on
\* the detail route of a ModelViewSet ("none": the method has no handler)
ActionOf(route, method) ==
    IF method = "OPTIONS" THEN "metadata"
    ELSE IF route = "list"
         THEN CASE method \in {"GET", "HEAD"} -> "list"
                [] method = "POST" -> "create"
                [] OTHER -> "none"
         ELSE CASE method \in {"GET", "HEAD"} -> "retrieve"
                [] method = "PUT" -> "update"
                [] method = "PATCH" -> "partial_update"
                [] method = "DELETE" -> "destroy"
                [] OTHER -> "none"

\* the request body of a create or update: the foreign keys it names and
\* whether its other fields validate
NoData == [publisher |-> NullPk, category |-> NullPk, book |-> NullPk]
Payloads(model) ==
    CASE model = "Book" ->
            [publisher : Pks, category : Pks \cup {NullPk}, book : {NullPk}, valid : BOOLEAN]
      [] model = "Review" ->
            [publisher : {NullPk}, category : {NullPk}, book : Pks, valid : BOOLEAN]
      [] OTHER ->
            [publisher : {NullPk}, category : {NullPk}, book : {NullPk}, valid : BOOLEAN]

\* serializer.is_valid(): the fields validate and every named row exists
PayloadValid(db, model, data) ==
    /\ data.valid
    /\ model = "Book" =>
          /\ data.publisher \in db.Publisher
          /\ data.category \in db.Category \cup {NullPk}
    /\ model = "Review" => data.book \in PkSet(db, "Book")

\* serializer.save() of a new row under key pk
Created(db, model, pk, data) ==
    CASE model = "Publisher" -> [db EXCEPT !.Publisher = @ \cup {pk}]
      [] model = "Store" -> [db EXCEPT !.Store = @ \cup {pk}]
      [] model = "Category" -> [db EXCEPT !.Category = @ \cup {pk}]
      [] model = "Book" ->
            [db EXCEPT !.Book = @ \cup {[pk |-> pk, publisher |-> data.publisher,
                                         category |-> data.category]}]
      [] model = "Review" ->
            [db EXCEPT !.Review = @ \cup {[pk |-> pk, book |-> data.book]}]

\* serializer.save() of an existing row
Updated(db, model, pk, data) ==
    CASE model = "Book" ->
            [db EXCEPT !.Book = {b \in @ : b.pk # pk}
                                \cup {[pk |-> pk, publisher |-> data.publisher,
                                       category |-> data.category]}]
      [] model = "Review" ->
            [db EXCEPT !.Review = {r \in @ : r.pk # pk}
                                  \cup {[pk |-> pk, book |-> data.book]}]
      [] OTHER -> db

NoRequest ==
    [view |-> "none", route |-> "list", method |-> "GET", action |-> "none",
     user |-> AnonymousUser, pk |-> NoPk, status |-> "none"]

Response(view, route, method, user, pk, status) ==
    [view |-> view, route |-> route, method |-> method,
     action |-> ActionOf(route, method), user |-> user, pk |-> pk, status |-> status]

\* APIView.initial: every permission class in force must allow the request
Permitted(view, route, method, user) ==
    \A cls \in get_permissions(view, ActionOf(route, method)) :
        has_permission(cls, [method |-> method, user |-> user])

(***************************************************************************)
(* One API request: permission check first, then the handler.              *)
(***************************************************************************)
\* the permission check fails: 401/403, nothing changes
ApiDenied(view, route, method, user, pk) ==
    /\ ~Permitted(view, route, method, user)
    /\ api_last' = Response(view, route, method, user, pk, "denied")
    /\ UNCHANGED books_db

\* the method has no handler on this route: 405
ApiNotAllowed(view, route, method, user, pk) ==
    /\ Permitted(view, route, method, user)
    /\ ActionOf(route, method) = "none"
    /\ api_last' = Response(view, route, method, user, pk, "method_not_allowed")
    /\ UNCHANGED books_db

\* list, retrieve, metadata
ApiRead(view, route, method, user, pk) ==
    /\ Permitted(view, route, method, user)
    /\ ActionOf(route, method) \in {"list", "retrieve", "metadata"}
    /\ api_last' = Response(view, route, method, user, pk,
                       IF ActionOf(route, method) = "retrieve"
                          /\ pk \notin PkSet(books_db, ModelOf(view))
                       THEN "not_found" ELSE "ok")
    /\ UNCHANGED books_db

\* create
ApiCreate(view, route, method, user, data) ==
    /\ Permitted(view, route, method, user)
    /\ ActionOf(route, method) = "create"
    /\ IF PayloadValid(books_db, ModelOf(view), data)
       THEN \E pk \in Pks \ PkSet(books_db, ModelOf(view)) :
               /\ RowCount(books_db) < MaxRows
               /\ books_db' = Created(books_db, ModelOf(view), pk, data)
               /\ api_last' = Response(view, route, method, user, pk, "created")
       ELSE /\ api_last' = Response(view, route, method, user, NoPk, "bad_request")
            /\ UNCHANGED books_db

\* update, partial_update
ApiUpdate(view, route, method, user, pk, data) ==
    /\ Permitted(view, route, method, user)
    /\ ActionOf(route, method) \in {"update", "partial_update"}
    /\ IF pk \notin PkSet(books_db, ModelOf(view))
       THEN /\ api_last' = Response(view, route, method, user, pk, "not_found")
            /\ UNCHANGED books_db
       ELSE IF PayloadValid(books_db, ModelOf(view), data)
            THEN /\ books_db' = Updated(books_db, ModelOf(view), pk, data)
                 /\ api_last' = Response(view, route, method, user, pk, "ok")
            ELSE /\ api_last' = Response(view, route, method, user, pk, "bad_request")
                 /\ UNCHANGED books_db

\* destroy
ApiDestroy(view, route, method, user, pk) ==
    /\ Permitted(view, route, method, user)
    /\ ActionOf(route, method) = "destroy"
    /\ IF pk \notin PkSet(books_db, ModelOf(view))
       THEN /\ api_last' = Response(view, route, method, user, pk, "not_found")
            /\ UNCHANGED books_db
       ELSE /\ books_db' = DeleteCascade(books_db, ModelOf(view), pk)
            /\ api_last' = Response(view, route, method, user, pk, "no_content")

RoutePks(route) == IF route = "list" THEN {NoPk} ELSE Pks

(***************************************************************************)
(* The steps of the API: a request is handled once the previous response   *)
(* has been returned.                                                      *)
(***************************************************************************)
Denied ==
    /\ api_last = NoRequest
    /\ \E view \in ViewSets, route \in Routes, method \in Methods, user \in RequestUsers :
          \E pk \in RoutePks(route) : ApiDenied(view, route, method, user, pk)
    /\ UNCHANGED <<web_last, perm_vars, shop_vars>>

NotAllowed ==
    /\ api_last = NoRequest
    /\ \E view \in ViewSets, route \in Routes, method \in Methods, user \in RequestUsers :
          \E pk \in RoutePks(route) : ApiNotAllowed(view, route, method, user, pk)
    /\ UNCHANGED <<web_last, perm_vars, shop_vars>>

Read ==
    /\ api_last = NoRequest
    /\ \E view \in ViewSets, route \in Routes, method \in Methods, user \in RequestUsers :
          \E pk \in RoutePks(route) : ApiRead(view, route, method, user, pk)
    /\ UNCHANGED <<web_last, perm_vars, shop_vars>>

Create ==
    /\ api_last = NoRequest
    /\ \E view \in ViewSets, route \in Routes, method \in Methods, user \in RequestUsers :
          \E data \in Payloads(ModelOf(view)) : ApiCreate(view, route, method, user, data)
    /\ UNCHANGED <<web_last, perm_vars, shop_vars>>

Update ==
    /\ api_last = NoRequest
    /\ \E view \in ViewSets, route \in Routes, method \in Methods, user \in RequestUsers :
          \E pk \in RoutePks(route), data \in Payloads(ModelOf(view)) :
              ApiUpdate(view, route, method, user, pk, data)
    /\ UNCHANGED <<web_last, perm_vars, shop_vars>>

Destroy ==
    /\ api_last = NoRequest
    /\ \E view \in ViewSets, route \in Routes, method \in Methods, user \in RequestUsers :
          \E pk \in RoutePks(route) : ApiDestroy(view, route, method, user, pk)
    /\ UNCHANGED <<web_last, perm_vars, shop_vars>>

\* the response is returned to the client
Respond ==
    /\ api_last # NoRequest
    /\ api_last' = NoRequest
    /\ UNCHANGED books_db
    /\ UNCHANGED <<web_last, perm_vars, shop_vars>>

PermCheckAdminOrReadOnly == CheckAdminOrReadOnly /\ UNCHANGED <<api_vars, shop_vars>>
PermCheckManagerOrReadOnly == CheckManagerOrReadOnly /\ UNCHANGED <<api_vars, shop_vars>>
PermCheckOwnerOrReadOnly == CheckOwnerOrReadOnly /\ UNCHANGED <<api_vars, shop_vars>>

(***************************************************************************)
(* The shop: accounts.                                                     *)
(***************************************************************************)
\* number of user rows ever created
MaxUsers == 2

UserIds == 1..MaxUsers
\* request.user of an anonymous session; an uidb64 that decodes to no row
NoUid == 0
Emails == {"a@shop", "b@shop"}

NoUser == [state |-> "unused", email |-> "", is_active |-> FALSE]

\* the primary keys not handed out yet; a new row takes the smallest
FreeUids == {u \in UserIds : users[u].state = "unused"}
NewUid == CHOOSE u \in FreeUids : \A v \in FreeUids : u <= v

\* User.objects.get(email=...)
UserByEmail(email) ==
    IF \E u \in UserIds : users[u].state = "row" /\ users[u].email = email
    THEN CHOOSE u \in UserIds : users[u].state = "row" /\ users[u].email = email
    ELSE NoUid

\* User.objects.get(pk=uid)
UserByPk(uid) ==
    IF uid \in UserIds /\ users[uid].state = "row" THEN uid ELSE NoUid

\* A token is the keyed hash of the user's key, password, last_login and
\* email.  tokens holds the users for whom a token computed from their
\* current row has been mailed; a request's token names the user whose row it
\* was computed from (NoUid: none).  A token computed from an earlier row, or
\* not issued by the site, matches nobody.
check_token(user, token, expired) ==
    /\ token = user
    /\ token \in tokens
    /\ ~expired

\* mutant: the new account is active at once
CustomUserCreationForm_save_Active(email) ==
    [state |-> "row", email |-> email, is_active |-> TRUE]

\* CustomUserCreationForm.save
CustomUserCreationForm_save(email) ==
    [state |-> "row", email |-> email, is_active |-> FALSE]

Passwords == {"correct", "wrong", "empty"}

\* EmailAuthenticationForm.clean, after the field checks
EmailAuthenticationForm_clean(email, password) ==
    IF password = "empty" THEN "invalid"
    ELSE IF UserByEmail(email) = NoUid THEN "invalid"
    ELSE IF ~users[UserByEmail(email)].is_active THEN "inactive"
    ELSE IF password # "correct" THEN "invalid"
    ELSE "ok"

\* django.contrib.auth.authenticate with the model backend: the password
\* matches and the account is active
authenticate(email, password) ==
    IF /\ UserByEmail(email) # NoUid
       /\ password = "correct"
       /\ users[UserByEmail(email)].is_active
    THEN UserByEmail(email)
    ELSE NoUid

(***************************************************************************)
(* The shop: catalogue, carts and the session.                             *)
(***************************************************************************)
\* number of product rows ever created
MaxProducts == 2
\* a submitted quantity lies in -MaxQty..MaxQty
MaxQty == 1
\* the quantity of a cart entry is kept at or below MaxItemQty
MaxItemQty == 2
\* number of cart entries (CartItem rows and session entries) kept
MaxCartRows == 2

ProductIds == 1..MaxProducts
Quantities == (0 - MaxQty)..MaxQty
\* request.POST.get('quantity', 1)
DefaultQuantity == 1

\* the quantity field of the request: an integer, missing, or not a number
QuantityInputs ==
    [kind : {"int"}, value : Quantities]
    \cup {[kind |-> "missing", value |-> DefaultQuantity], [kind |-> "bad", value |-> 0]}

NoProducts == [rows |-> {}, last_id |-> 0]
NoCartItems == [u \in UserIds |-> [p \in ProductIds |-> <<>>]]
EmptySession == [user |-> NoUid, has_cart |-> FALSE, cart |-> <<>>]

InRange(q) == (0 - MaxItemQty) <= q /\ q <= MaxItemQty
Positive(q) == 1 <= q /\ q <= MaxItemQty

RECURSIVE SumLen(_, _)
SumLen(items, pairs) ==
    IF pairs = {} THEN 0
    ELSE LET x == CHOOSE y \in pairs : TRUE
         IN Len(items[x[1]][x[2]]) + SumLen(items, pairs \ {x})

\* number of cart entries held: CartItem rows and session entries
CartRows(items, sess) == SumLen(items, UserIds \X ProductIds) + Len(sess.cart)

\* the carts explored: at most MaxCartRows entries, every quantity within
\* -MaxItemQty..MaxItemQty
BoundedCarts(items, sess) ==
    /\ CartRows(items, sess) <= MaxCartRows
    /\ \A u \in UserIds, p \in ProductIds :
          \A i \in DOMAIN items[u][p] : InRange(items[u][p][i])
    /\ \A i \in DOMAIN sess.cart : InRange(sess.cart[i].quantity)

\* the carts explored together with logins: at most MaxCartRows entries,
\* every quantity within 1..MaxItemQty
PositiveCarts(items, sess) ==
    /\ CartRows(items, sess) <= MaxCartRows
    /\ \A u \in UserIds, p \in ProductIds :
          \A i \in DOMAIN items[u][p] : Positive(items[u][p][i])
    /\ \A i \in DOMAIN sess.cart : Positive(sess.cart[i].quantity)

\* mutant: a second row is created beside an existing one
CartItem_add_AlwaysCreate(items, cart, product, quantity) ==
    [items EXCEPT ![cart][product] = Append(@, quantity)]

\* CartItem.objects.get_or_create(cart, product, defaults) of add_to_cart,
\* followed by `if not created: quantity += ...; save()`
CartItem_add(items, cart, product, quantity) ==
    IF items[cart][product] = <<>>
    THEN [items EXCEPT ![cart][product] = <<quantity>>]
    ELSE [items EXCEPT ![cart][product] = <<@[1] + quantity>>]

\* mutant: an existing row takes the session quantity instead of adding it
CartItem_merge_Overwrite(items, cart, product, quantity) ==
    [items EXCEPT ![cart][product] = <<quantity>>]

\* the same two steps in merge_session_cart_to_user_cart
CartItem_merge(items, cart, product, quantity) ==
    IF items[cart][product] = <<>>
    THEN [items EXCEPT ![cart][product] = <<quantity>>]
    ELSE [items EXCEPT ![cart][product] = <<@[1] + quantity>>]

\* the loop of merge_session_cart_to_user_cart over the session entries;
\* get_or_create raises when it finds several rows
RECURSIVE MergeEntries(_, _, _)
MergeEntries(items, entries, cart) ==
    IF entries = <<>>
    THEN [items |-> items, raised |-> FALSE]
    ELSE LET e == Head(entries)
         IN IF e.product_id \notin Product.rows
            THEN MergeEntries(items, Tail(entries), cart)
            ELSE IF Len(items[cart][e.product_id]) > 1
                 THEN [items |-> items, raised |-> TRUE]
                 ELSE MergeEntries(CartItem_merge(items, cart, e.product_id, e.quantity),
                                   Tail(entries), cart)

\* merge_session_cart_to_user_cart(request, user): the carts and the session
\* it leaves
merge_session_cart_to_user_cart(sess, user) ==
    IF sess.has_cart /\ sess.cart # <<>>
    THEN LET m == MergeEntries(CartItem, sess.cart, user)
         IN [Cart |-> Cart \cup {user},
             CartItem |-> m.items,
             session |-> IF m.raised THEN sess
                         ELSE [sess EXCEPT !.has_cart = FALSE, !.cart = <<>>],
             raised |-> m.raised]
    ELSE [Cart |-> Cart, CartItem |-> CartItem, session |-> sess, raised |-> FALSE]

\* position of the first session entry for the product, 0 when there is none
FirstEntry(cart, product_id) ==
    IF \E i \in DOMAIN cart : cart[i].product_id = product_id
    THEN CHOOSE i \in DOMAIN cart :
            /\ cart[i].product_id = product_id
            /\ \A j \in DOMAIN cart : cart[j].product_id = product_id => i <= j
    ELSE 0

\* the anonymous branch of add_to_cart on the session's cart list
session_add(cart, product_id, quantity) ==
    IF FirstEntry(cart, product_id) # 0
    THEN [cart EXCEPT ![FirstEntry(cart, product_id)].quantity = @ + quantity]
    ELSE Append(cart, [product_id |-> product_id, quantity |-> quantity])

(***************************************************************************)
(* Responses of the shop views.                                            *)
(***************************************************************************)
NoResponse ==
    [op |-> "none", method |-> "GET", status |-> "none", uid |-> NoUid, email |-> "",
     password |-> "empty", product_id |-> 0, quantity |-> 0, merged |-> 0, onto |-> 0,
     message |-> "", token |-> NoUid, expired |-> FALSE]

ShopResponse(op, method, status) ==
    [NoResponse EXCEPT !.op = op, !.method = method, !.status = status]

(***************************************************************************)
(* The shop views.  Each leaves `added` to the step that uses it.          *)
(***************************************************************************)
\* mutant: the branch for logged-in users is never taken
is_authenticated_Never(sess) == FALSE

\* request.user.is_authenticated
is_authenticated(sess) == sess.user # NoUid

\* register
register(method, email, form_ok, mail_ok) ==
    IF is_authenticated(session)
    THEN /\ shop_last' = ShopResponse("register", method, "redirect_home")
         /\ UNCHANGED <<account_vars, Product, Cart, CartItem, session>>
    ELSE IF method = "POST" /\ form_ok /\ UserByEmail(email) = NoUid
         THEN /\ FreeUids # {}
              /\ users' = [users EXCEPT ![NewUid] = CustomUserCreationForm_save(email)]
              /\ tokens' = IF mail_ok THEN tokens \cup {NewUid} ELSE tokens
              /\ shop_last' = [ShopResponse("register", method, "confirmation_sent")
                                 EXCEPT !.uid = NewUid, !.email = email]
              /\ UNCHANGED <<activated, Product, Cart, CartItem, session>>
         ELSE /\ shop_last' = [ShopResponse("register", method, "form")
                                 EXCEPT !.email = email]
              /\ UNCHANGED <<account_vars, Product, Cart, CartItem, session>>

\* activate
activate(uid, token, expired) ==
    LET user == UserByPk(uid)
    IN IF user # NoUid /\ check_token(user, token, expired)
       THEN /\ users' = [users EXCEPT ![user].is_active = TRUE]
            /\ activated' = activated \cup {user}
            /\ shop_last' = [ShopResponse("activate", "GET", "activated")
                               EXCEPT !.uid = user]
            /\ UNCHANGED <<tokens, Product, Cart, CartItem, session>>
       ELSE /\ shop_last' = [ShopResponse("activate", "GET", "activation_invalid")
                               EXCEPT !.uid = user]
            /\ UNCHANGED <<account_vars, Product, Cart, CartItem, session>>

\* the flash message password_reset leaves for a POST with a well-formed
\* email, given the user table it looks the email up in: the three texts of
\* messages.success / messages.error, named by their meaning
password_reset_message(table, email, mail_ok) ==
    IF \E u \in UserIds : table[u].state = "row" /\ table[u].email = email
    THEN IF mail_ok
         THEN "instructions_sent_to_your_email"
         ELSE "error_sending_mail"
    ELSE "if_user_exists_instructions_sent"

\* password_reset
password_reset(method, email, form_ok, mail_ok) ==
    IF method = "POST" /\ form_ok
    THEN /\ tokens' = IF UserByEmail(email) # NoUid /\ mail_ok
                      THEN tokens \cup {UserByEmail(email)}
                      ELSE tokens
         /\ shop_last' = [ShopResponse("password_reset", method, "redirect_password_reset_done")
                            EXCEPT !.email = email,
                                   !.message = password_reset_message(users, email, mail_ok)]
         /\ UNCHANGED <<users, activated, Product, Cart, CartItem, session>>
    ELSE /\ shop_last' = ShopResponse("password_reset", method, "form")
         /\ UNCHANGED <<account_vars, Product, Cart, CartItem, session>>

\* account_delete_request (@login_required): the link is mailed to the user
account_delete_request(method, mail_ok) ==
    IF ~is_authenticated(session)
    THEN /\ shop_last' = ShopResponse("account_delete_request", method, "redirect_login")
         /\ UNCHANGED <<account_vars, Product, Cart, CartItem, session>>
    ELSE IF method = "POST"
         THEN /\ tokens' = IF mail_ok THEN tokens \cup {session.user} ELSE tokens
              /\ shop_last' = [ShopResponse("account_delete_request", method,
                                            "redirect_profile")
                                 EXCEPT !.uid = session.user]
              /\ UNCHANGED <<users, activated, Product, Cart, CartItem, session>>
         ELSE /\ shop_last' = [ShopResponse("account_delete_request", method, "form")
                                 EXCEPT !.uid = session.user]
              /\ UNCHANGED <<account_vars, Product, Cart, CartItem, session>>

\* user.delete(): the row goes, and with it the user's cart and cart rows
\* (Cart.user and CartItem.cart are on_delete=CASCADE); a session logged in
\* as the user is anonymous from then on
user_delete(user) ==
    /\ users' = [users EXCEPT ![user] = NoUser]
    /\ tokens' = tokens \ {user}
    /\ activated' = activated \ {user}
    /\ Cart' = Cart \ {user}
    /\ CartItem' = [CartItem EXCEPT ![user] = [p \in ProductIds |-> <<>>]]
    /\ session' = IF session.user = user
                  THEN [session EXCEPT !.user = NoUid]
                  ELSE session
    /\ UNCHANGED Product

\* mutant: a valid link deletes the account as soon as it is opened
account_delete_confirm_OnAnyMethod(method, uid, token, expired) ==
    LET user == UserByPk(uid)
    IN IF user # NoUid /\ check_token(user, token, expired)
       THEN /\ user_delete(user)
            /\ shop_last' = [ShopResponse("account_delete_confirm", method, "deleted")
                               EXCEPT !.uid = uid, !.token = token,
                                      !.expired = expired]
       ELSE /\ shop_last' = [ShopResponse("account_delete_confirm", method, "invalid_link")
                               EXCEPT !.uid = uid, !.token = token,
                                      !.expired = expired]
            /\ UNCHANGED <<account_vars, Product, Cart, CartItem, session>>

\* account_delete_confirm
account_delete_confirm(method, uid, token, expired) ==
    LET user == UserByPk(uid)
    IN IF user # NoUid /\ check_token(user, token, expired)
       THEN IF method = "POST"
            THEN /\ user_delete(user)
                 /\ shop_last' = [ShopResponse("account_delete_confirm", method, "deleted")
                                    EXCEPT !.uid = uid, !.token = token,
                                           !.expired = expired]
            ELSE /\ shop_last' = [ShopResponse("account_delete_confirm", method,
                                               "confirm_page")
                                    EXCEPT !.uid = uid, !.token = token,
                                           !.expired = expired]
                 /\ UNCHANGED <<account_vars, Product, Cart, CartItem, session>>
       ELSE /\ shop_last' = [ShopResponse("account_delete_confirm", method, "invalid_link")
                               EXCEPT !.uid = uid, !.token = token,
                                      !.expired = expired]
            /\ UNCHANGED <<account_vars, Product, Cart, CartItem, session>>

\* number of session entries whose product exists, and of those that meet an
\* existing row of the user's cart
MergedCount(sess) ==
    Cardinality({i \in DOMAIN sess.cart : sess.cart[i].product_id \in Product.rows})
OntoCount(sess, user) ==
    Cardinality({i \in DOMAIN sess.cart :
                    /\ sess.cart[i].product_id \in Product.rows
                    /\ CartItem[user][sess.cart[i].product_id] # <<>>})

\* login_view
login_view(method, email, password) ==
    IF is_authenticated(session)
    THEN /\ shop_last' = ShopResponse("login_view", method, "redirect_home")
         /\ UNCHANGED <<account_vars, Product, Cart, CartItem, session>>
    ELSE IF method = "POST" /\ EmailAuthenticationForm_clean(email, password) = "ok"
         THEN LET user == authenticate(email, password)
                  m == merge_session_cart_to_user_cart(session, user)
              IN IF user # NoUid
                 THEN /\ Cart' = m.Cart
                      /\ CartItem' = m.CartItem
                      /\ IF m.raised
                         THEN /\ session' = m.session
                              /\ shop_last' = [ShopResponse("login_view", method, "error")
                                                 EXCEPT !.email = email,
                                                        !.password = password]
                              /\ UNCHANGED tokens
                         ELSE \* login(): the session keeps its data, last_login is set
                              /\ session' = [m.session EXCEPT !.user = user]
                              /\ tokens' = tokens \ {user}
                              /\ shop_last' = [ShopResponse("login_view", method, "logged_in")
                                                 EXCEPT !.uid = user, !.email = email,
                                                        !.password = password,
                                                        !.merged = MergedCount(session),
                                                        !.onto = OntoCount(session, user)]
                      /\ UNCHANGED <<users, activated, Product>>
                 ELSE /\ shop_last' = [ShopResponse("login_view", method, "bad_credentials")
                                         EXCEPT !.email = email, !.password = password]
                      /\ UNCHANGED <<account_vars, Product, Cart, CartItem, session>>
         ELSE /\ shop_last' = [ShopResponse("login_view", method,
                                       IF method = "POST" THEN "form_invalid" ELSE "form")
                                 EXCEPT !.email = email, !.password = password]
              /\ UNCHANGED <<account_vars, Product, Cart, CartItem, session>>

\* the login view of rest_framework.urls (api/auth/login/): authenticates and
\* calls login() without touching the carts; login() drops the session's
\* data when the session belonged to another user
api_auth_login(email, password) ==
    LET user == authenticate(email, password)
    IN IF user # NoUid
       THEN /\ session' = IF session.user \in {NoUid, user}
                          THEN [session EXCEPT !.user = user]
                          ELSE [EmptySession EXCEPT !.user = user]
            /\ tokens' = tokens \ {user}
            /\ shop_last' = [ShopResponse("api_auth_login", "POST", "logged_in")
                               EXCEPT !.uid = user, !.email = email,
                                      !.password = password]
            /\ UNCHANGED <<users, activated, Product, Cart, CartItem>>
       ELSE /\ shop_last' = [ShopResponse("api_auth_login", "POST", "form_invalid")
                               EXCEPT !.email = email, !.password = password]
            /\ UNCHANGED <<account_vars, Product, Cart, CartItem, session>>

\* logout_view: logout() flushes the session
logout_view ==
    /\ session' = EmptySession
    /\ shop_last' = [ShopResponse("logout_view", "GET", "redirect_product_list")
                       EXCEPT !.uid = session.user]
    /\ UNCHANGED <<account_vars, Product, Cart, CartItem>>

\* mutant: a row is found for every key
get_object_or_404_AnyPk(rows, pk) == TRUE

\* get_object_or_404(Model, pk=pk): FALSE stands for Http404
get_object_or_404(rows, pk) == pk \in rows

\* add_to_cart
add_to_cart(product_id, q) ==
    IF ~get_object_or_404(Product.rows, product_id)
    THEN /\ shop_last' = [ShopResponse("add_to_cart", "POST", "not_found")
                            EXCEPT !.uid = session.user, !.product_id = product_id]
         /\ UNCHANGED <<account_vars, Product, Cart, CartItem, session>>
    ELSE IF q.kind = "bad"
    THEN \* int() raises ValueError
         /\ shop_last' = [ShopResponse("add_to_cart", "POST", "error")
                            EXCEPT !.uid = session.user, !.product_id = product_id]
         /\ UNCHANGED <<account_vars, Product, Cart, CartItem, session>>
    ELSE IF is_authenticated(session)
    THEN IF Len(CartItem[session.user][product_id]) > 1
         THEN \* get_or_create raises MultipleObjectsReturned, the cart row stays
              /\ Cart' = Cart \cup {session.user}
              /\ shop_last' = [ShopResponse("add_to_cart", "POST", "error")
                                 EXCEPT !.uid = session.user, !.product_id = product_id]
              /\ UNCHANGED <<account_vars, Product, CartItem, session>>
         ELSE LET items == CartItem_add(CartItem, session.user, product_id, q.value)
              IN /\ Cart' = Cart \cup {session.user}
                 /\ CartItem' = items
                 /\ shop_last' = [ShopResponse("add_to_cart", "POST", "added")
                                    EXCEPT !.uid = session.user,
                                           !.product_id = product_id,
                                           !.quantity = q.value]
                 /\ UNCHANGED <<account_vars, Product, session>>
    ELSE LET cart == session_add(session.cart, product_id, q.value)
         IN /\ session' = [session EXCEPT !.has_cart = TRUE, !.cart = cart]
            /\ shop_last' = [ShopResponse("add_to_cart", "POST", "added")
                               EXCEPT !.product_id = product_id, !.quantity = q.value]
            /\ UNCHANGED <<account_vars, Product, Cart, CartItem>>

\* create_test_products: a product row is created under the next key
create_test_product ==
    /\ Product.last_id < MaxProducts
    /\ Product' = [rows |-> Product.rows \cup {Product.last_id + 1},
                   last_id |-> Product.last_id + 1]
    /\ shop_last' = [ShopResponse("create_test_products", "GET", "created")
                       EXCEPT !.product_id = Product.last_id + 1]
    /\ UNCHANGED <<account_vars, Cart, CartItem, session>>

\* ProductAdmin: a product row is deleted, and with it (CartItem.product is
\* on_delete=CASCADE) the cart rows that name it; session entries stay
admin_delete_product(product_id) ==
    /\ product_id \in Product.rows
    /\ Product' = [Product EXCEPT !.rows = @ \ {product_id}]
    /\ CartItem' = [u \in UserIds |->
                       [p \in ProductIds |->
                           IF p = product_id THEN <<>> ELSE CartItem[u][p]]]
    /\ shop_last' = [ShopResponse("admin_delete_product", "POST", "deleted")
                       EXCEPT !.product_id = product_id]
    /\ UNCHANGED <<account_vars, Cart, session>>

(***************************************************************************)
(* The steps of the shop: a request is handled once the previous response  *)
(* has been returned.                                                      *)
(***************************************************************************)
HttpMethods == {"GET", "POST"}

Register ==
    /\ shop_last = NoResponse
    /\ \E method \in HttpMethods, email \in Emails, form_ok \in BOOLEAN, mail_ok \in BOOLEAN :
          register(method, email, form_ok, mail_ok)
    /\ UNCHANGED <<api_vars, perm_vars, added>>

Activate ==
    /\ shop_last = NoResponse
    /\ \E uid \in UserIds \cup {NoUid}, token \in UserIds \cup {NoUid}, expired \in BOOLEAN :
          activate(uid, token, expired)
    /\ UNCHANGED <<api_vars, perm_vars, added>>

Login ==
    /\ shop_last = NoResponse
    /\ \E method \in HttpMethods, email \in Emails, password \in Passwords :
          login_view(method, email, password)
    /\ PositiveCarts(CartItem', session')
    /\ UNCHANGED <<api_vars, perm_vars, added>>

PasswordReset ==
    /\ shop_last = NoResponse
    /\ \E method \in HttpMethods, email \in Emails, form_ok \in BOOLEAN, mail_ok \in BOOLEAN :
          password_reset(method, email, form_ok, mail_ok)
    /\ UNCHANGED <<api_vars, perm_vars, added>>

AccountDeleteRequest ==
    /\ shop_last = NoResponse
    /\ \E method \in HttpMethods, mail_ok \in BOOLEAN : account_delete_request(method, mail_ok)
    /\ UNCHANGED <<api_vars, perm_vars, added>>

AccountDeleteConfirm ==
    /\ shop_last = NoResponse
    /\ \E method \in HttpMethods, uid \in UserIds \cup {NoUid},
          token \in UserIds \cup {NoUid}, expired \in BOOLEAN :
          account_delete_confirm(method, uid, token, expired)
    /\ UNCHANGED <<api_vars, perm_vars, added>>

ApiAuthLogin ==
    /\ shop_last = NoResponse
    /\ \E email \in Emails, password \in Passwords : api_auth_login(email, password)
    /\ UNCHANGED <<api_vars, perm_vars, added>>

Logout ==
    /\ shop_last = NoResponse
    /\ logout_view
    /\ UNCHANGED <<api_vars, perm_vars, added>>

AddToCart ==
    /\ shop_last = NoResponse
    /\ \E product_id \in ProductIds, q \in QuantityInputs : add_to_cart(product_id, q)
    /\ PositiveCarts(CartItem', session')
    /\ UNCHANGED <<api_vars, perm_vars, added>>

\* add_to_cart, with the submitted integer quantities summed up per requester
\* and product in `added`
AddToCartCounted ==
    /\ shop_last = NoResponse
    /\ \E product_id \in ProductIds, q \in QuantityInputs :
          /\ add_to_cart(product_id, q)
          /\ BoundedCarts(CartItem', session')
          /\ IF q.kind = "bad"
             THEN UNCHANGED added
             ELSE /\ InRange(added[session.user][product_id] + q.value)
                  /\ added' = [added EXCEPT ![session.user][product_id] = @ + q.value]
    /\ UNCHANGED <<api_vars, perm_vars>>

CreateTestProduct ==
    /\ shop_last = NoResponse
    /\ create_test_product
    /\ UNCHANGED <<api_vars, perm_vars, added>>

AdminDeleteProduct ==
    /\ shop_last = NoResponse
    /\ \E product_id \in ProductIds : admin_delete_product(product_id)
    /\ UNCHANGED <<api_vars, perm_vars, added>>

\* the response is returned to the browser
ShopRespond ==
    /\ shop_last # NoResponse
    /\ shop_last' = NoResponse
    /\ UNCHANGED <<api_vars, perm_vars, account_vars, cart_vars>>

(***************************************************************************)
(* The delete pages of the books web interface (books/<model>/<pk>/delete/).*)
(***************************************************************************)
DeleteViews == {"book_delete", "publisher_delete", "store_delete", "review_delete"}

\* the model whose row a delete page looks up
DeletedModel(view) ==
    CASE view = "book_delete" -> "Book"
      [] view = "publisher_delete" -> "Publisher"
      [] view = "store_delete" -> "Store"
      [] view = "review_delete" -> "Review"

NoPage == [view |-> "none", method |-> "GET", pk |-> NoPk, status |-> "none"]

Page(view, method, pk, status) ==
    [view |-> view, method |-> method, pk |-> pk, status |-> status]

\* mutant: the row is deleted as soon as the page is opened
book_delete_OnAnyMethod(method, pk) ==
    IF ~get_object_or_404(PkSet(books_db, "Book"), pk)
    THEN /\ web_last' = Page("book_delete", method, pk, "not_found")
         /\ UNCHANGED books_db
    ELSE /\ books_db' = DeleteCascade(books_db, "Book", pk)
         /\ web_last' = Page("book_delete", method, pk, "redirect_list")

\* book_delete
book_delete(method, pk) ==
    IF ~get_object_or_404(PkSet(books_db, "Book"), pk)
    THEN /\ web_last' = Page("book_delete", method, pk, "not_found")
         /\ UNCHANGED books_db
    ELSE IF method = "POST"
         THEN /\ books_db' = DeleteCascade(books_db, "Book", pk)
              /\ web_last' = Page("book_delete", method, pk, "redirect_list")
         ELSE /\ web_last' = Page("book_delete", method, pk, "confirm_page")
              /\ UNCHANGED books_db

\* publisher_delete
publisher_delete(method, pk) ==
    IF ~get_object_or_404(PkSet(books_db, "Publisher"), pk)
    THEN /\ web_last' = Page("publisher_delete", method, pk, "not_found")
         /\ UNCHANGED books_db
    ELSE IF method = "POST"
         THEN /\ books_db' = DeleteCascade(books_db, "Publisher", pk)
              /\ web_last' = Page("publisher_delete", method, pk, "redirect_list")
         ELSE /\ web_last' = Page("publisher_delete", method, pk, "confirm_page")
              /\ UNCHANGED books_db

\* store_delete
store_delete(method, pk) ==
    IF ~get_object_or_404(PkSet(books_db, "Store"), pk)
    THEN /\ web_last' = Page("store_delete", method, pk, "not_found")
         /\ UNCHANGED books_db
    ELSE IF method = "POST"
         THEN /\ books_db' = DeleteCascade(books_db, "Store", pk)
              /\ web_last' = Page("store_delete", method, pk, "redirect_list")
         ELSE /\ web_last' = Page("store_delete", method, pk, "confirm_page")
              /\ UNCHANGED books_db

\* review_delete
review_delete(method, pk) ==
    IF ~get_object_or_404(PkSet(books_db, "Review"), pk)
    THEN /\ web_last' = Page("review_delete", method, pk, "not_found")
         /\ UNCHANGED books_db
    ELSE IF method = "POST"
         THEN /\ books_db' = DeleteCascade(books_db, "Review", pk)
              /\ web_last' = Page("review_delete", method, pk, "redirect_list")
         ELSE /\ web_last' = Page("review_delete", method, pk, "confirm_page")
              /\ UNCHANGED books_db

\* the steps of the web interface: one request at a time
BookDelete ==
    /\ api_last = NoRequest
    /\ web_last = NoPage
    /\ \E method \in Methods, pk \in Pks : book_delete(method, pk)
    /\ UNCHANGED <<api_last, perm_vars, shop_vars>>

PublisherDelete ==
    /\ api_last = NoRequest
    /\ web_last = NoPage
    /\ \E method \in Methods, pk \in Pks : publisher_delete(method, pk)
    /\ UNCHANGED <<api_last, perm_vars, shop_vars>>

StoreDelete ==
    /\ api_last = NoRequest
    /\ web_last = NoPage
    /\ \E method \in Methods, pk \in Pks : store_delete(method, pk)
    /\ UNCHANGED <<api_last, perm_vars, shop_vars>>

ReviewDelete ==
    /\ api_last = NoRequest
    /\ web_last = NoPage
    /\ \E method \in Methods, pk \in Pks : review_delete(method, pk)
    /\ UNCHANGED <<api_last, perm_vars, shop_vars>>

\* the page is returned to the browser
WebRespond ==
    /\ web_last # NoPage
    /\ web_last' = NoPage
    /\ UNCHANGED <<books_db, api_last, perm_vars, shop_vars>>

\* rows are created through the API between two pages
CreateBetweenPages ==
    /\ web_last = NoPage
    /\ Create

(***************************************************************************)
(* Specifications.                                                         *)
(***************************************************************************)
NoInput ==
    [cls |-> "none", method |-> "GET", user |-> AnonymousUser, obj |-> NoObject]

NoAdded == [r \in UserIds \cup {NoUid} |-> [p \in ProductIds |-> 0]]

\* the shop with no user, no product, no cart and an anonymous session
InitShopEmpty ==
    /\ users = [u \in UserIds |-> NoUser]
    /\ tokens = {}
    /\ activated = {}
    /\ Product = NoProducts
    /\ Cart = {}
    /\ CartItem = NoCartItems
    /\ session = EmptySession
    /\ added = NoAdded
    /\ shop_last = NoResponse

InitApi ==
    /\ books_db = EmptyDb
    /\ api_last = NoRequest
    /\ web_last = NoPage
    /\ perm_in = NoInput
    /\ perm_last = NoCheck
    /\ InitShopEmpty

InitPerm ==
    /\ books_db = EmptyDb
    /\ api_last = NoRequest
    /\ web_last = NoPage
    /\ perm_in \in PermInputs
    /\ perm_last = NoCheck
    /\ InitShopEmpty

\* registration, activation, login and logout from an empty user table
InitAccount ==
    /\ books_db = EmptyDb
    /\ api_last = NoRequest
    /\ web_last = NoPage
    /\ perm_in = NoInput
    /\ perm_last = NoCheck
    /\ InitShopEmpty

\* the two customers of the cart specifications: registered and activated
Customers ==
    [u \in UserIds |->
        IF u = 1 THEN [state |-> "row", email |-> "a@shop", is_active |-> TRUE]
        ELSE IF u = 2 THEN [state |-> "row", email |-> "b@shop", is_active |-> TRUE]
        ELSE NoUser]

\* the carts: two activated customers, an empty catalogue, no cart
InitCart ==
    /\ books_db = EmptyDb
    /\ api_last = NoRequest
    /\ web_last = NoPage
    /\ perm_in = NoInput
    /\ perm_last = NoCheck
    /\ users = Customers
    /\ tokens = {}
    /\ activated = {1, 2}
    /\ Product = NoProducts
    /\ Cart = {}
    /\ CartItem = NoCartItems
    /\ session = EmptySession
    /\ added = NoAdded
    /\ shop_last = NoResponse

\* add_to_cart alone: a catalogue, and a session that is anonymous or logged
\* in as one of the customers, before the first add_to_cart
InitAdds ==
    /\ books_db = EmptyDb
    /\ api_last = NoRequest
    /\ web_last = NoPage
    /\ perm_in = NoInput
    /\ perm_last = NoCheck
    /\ users = Customers
    /\ tokens = {}
    /\ activated = {1, 2}
    /\ Product \in [rows : SUBSET ProductIds, last_id : {MaxProducts}]
    /\ Cart = {}
    /\ CartItem = NoCartItems
    /\ session \in [user : {NoUid, 1, 2}, has_cart : {FALSE}, cart : {<<>>}]
    /\ added = NoAdded
    /\ shop_last = NoResponse

\* the delete pages, from an empty database
InitWeb ==
    /\ books_db = EmptyDb
    /\ api_last = NoRequest
    /\ web_last = NoPage
    /\ perm_in = NoInput
    /\ perm_last = NoCheck
    /\ InitShopEmpty

NextApi ==
    \/ Denied
    \/ NotAllowed
    \/ Read
    \/ Create
    \/ Update
    \/ Destroy
    \/ Respond

NextPerm ==
    \/ PermCheckAdminOrReadOnly
    \/ PermCheckManagerOrReadOnly
    \/ PermCheckOwnerOrReadOnly

NextAccount ==
    \/ Register
    \/ Activate
    \/ Login
    \/ ApiAuthLogin
    \/ Logout
    \/ ShopRespond

NextReset ==
    \/ Register
    \/ Activate
    \/ PasswordReset
    \/ ShopRespond

NextDelete ==
    \/ Register
    \/ Activate
    \/ Login
    \/ Logout
    \/ AccountDeleteRequest
    \/ AccountDeleteConfirm
    \/ ShopRespond

NextCart ==
    \/ Login
    \/ ApiAuthLogin
    \/ Logout
    \/ AddToCart
    \/ CreateTestProduct
    \/ AdminDeleteProduct
    \/ ShopRespond

NextAdds ==
    \/ AddToCartCounted
    \/ ShopRespond

NextWeb ==
    \/ CreateBetweenPages
    \/ Respond
    \/ BookDelete
    \/ PublisherDelete
    \/ StoreDelete
    \/ ReviewDelete
    \/ WebRespond

\* the REST API of the books application
SpecApi == InitApi /\ [][NextApi]_vars

\* the permission classes as functions of the request and the object
SpecPerm == InitPerm /\ [][NextPerm]_vars

\* the accounts of the shop
SpecAccount == InitAccount /\ [][NextAccount]_vars

\* password_reset beside registration and activation
SpecReset == InitAccount /\ [][NextReset]_vars

\* deletion of accounts beside registration, activation and login
SpecDelete == InitAccount /\ [][NextDelete]_vars

\* the carts of the shop
SpecCart == InitCart /\ [][NextCart]_vars

\* sequences of add_to_cart calls
SpecAdds == InitAdds /\ [][NextAdds]_vars

\* the delete pages of the books web interface
SpecWeb == InitWeb /\ [][NextWeb]_vars

(***************************************************************************)
(* Properties.                                                             *)
(***************************************************************************)
ManagerViewSets == {"BookViewSet", "PublisherViewSet", "StoreViewSet", "CategoryViewSet"}

AuthenticatedWithRole(user, roles) ==
    user.is_authenticated /\ user.has_role /\ user.role \in roles

\* C1: under IsManagerOrReadOnly (BookViewSet, PublisherViewSet, StoreViewSet,
\* CategoryViewSet) a DELETE request passes the permission check if and only
\* if the requester is authenticated with role 'admin'; a DELETE from anyone
\* else (manager, other role, no role, anonymous) is denied and leaves every
\* table unchanged.
C1_DeleteOnlyByAdmin ==
    [][ (/\ api_last = NoRequest
         /\ api_last' # NoRequest
         /\ api_last'.view \in ManagerViewSets
         /\ api_last'.method = "DELETE")
        => /\ (api_last'.status # "denied")
                <=> AuthenticatedWithRole(api_last'.user, {"admin"})
           /\ ~AuthenticatedWithRole(api_last'.user, {"admin"})
                => books_db' = books_db ]_vars

\* a manager's DELETE of an existing object has been denied, the object is
\* still there
C1_Witness ==
    /\ api_last.view \in ManagerViewSets
    /\ api_last.method = "DELETE"
    /\ api_last.route = "detail"
    /\ api_last.user.role = "manager"
    /\ api_last.status = "denied"
    /\ api_last.pk \in PkSet(books_db, ModelOf(api_last.view))

\* C2: under IsManagerOrReadOnly a POST, PUT or PATCH request passes the
\* permission check if and only if the requester is authenticated with role
\* 'admin' or 'manager'.
C2_EditByAdminOrManager ==
    (/\ api_last.view \in ManagerViewSets
     /\ api_last.method \in {"POST", "PUT", "PATCH"})
    => ((api_last.status # "denied")
          <=> AuthenticatedWithRole(api_last.user, {"admin", "manager"}))

\* a manager has created a publisher
C2_Witness ==
    /\ api_last.view = "PublisherViewSet"
    /\ api_last.method = "POST"
    /\ api_last.user.role = "manager"
    /\ api_last.status = "created"
    /\ api_last.pk \in books_db.Publisher

\* C3: each of IsAdminOrReadOnly.has_permission,
\* IsManagerOrReadOnly.has_permission and
\* IsOwnerOrReadOnly.has_object_permission permits every GET, HEAD and OPTIONS
\* request, whoever the requester is and whoever owns the object.
C3_SafeMethodsPermitted ==
    (/\ perm_last.cls \in {"IsAdminOrReadOnly", "IsManagerOrReadOnly", "IsOwnerOrReadOnly"}
     /\ perm_in.method \in {"GET", "HEAD", "OPTIONS"})
    => perm_last.result = TRUE

\* an anonymous OPTIONS request on an object owned by somebody was permitted
C3_Witness ==
    /\ perm_last.cls = "IsOwnerOrReadOnly"
    /\ perm_in.method = "OPTIONS"
    /\ perm_in.user = AnonymousUser
    /\ perm_in.obj.user = "alice"
    /\ perm_last.result = TRUE

\* C4: in ReviewViewSet a POST bound to action 'create' passes the permission
\* check exactly for authenticated users, whatever their role; PUT, PATCH and
\* DELETE pass exactly for authenticated users with role 'admin'; GET passes
\* for everyone.
C4_ReviewPermissions ==
    api_last.view = "ReviewViewSet"
    => /\ (api_last.method = "POST" /\ api_last.action = "create")
            => ((api_last.status # "denied") <=> api_last.user.is_authenticated)
       /\ api_last.method \in {"PUT", "PATCH", "DELETE"}
            => ((api_last.status # "denied")
                  <=> AuthenticatedWithRole(api_last.user, {"admin"}))
       /\ api_last.method = "GET" => api_last.status # "denied"

\* an authenticated user without the admin or manager role has created a review
C4_Witness ==
    /\ api_last.view = "ReviewViewSet"
    /\ api_last.method = "POST"
    /\ api_last.action = "create"
    /\ api_last.user.is_authenticated
    /\ api_last.user.role \notin {"admin", "manager"}
    /\ api_last.status = "created"
    /\ api_last.pk \in PkSet(books_db, "Review")

\* C5: IsAdminOrReadOnly.has_permission permits a POST, PUT, PATCH or DELETE
\* request if and only if the requester is authenticated with role 'admin'.
C5_UnsafeOnlyAdmin ==
    (/\ perm_last.cls = "IsAdminOrReadOnly"
     /\ perm_in.method \in {"POST", "PUT", "PATCH", "DELETE"})
    => (perm_last.result <=> AuthenticatedWithRole(perm_in.user, {"admin"}))

\* a manager's PATCH was refused
C5_Witness ==
    /\ perm_last.cls = "IsAdminOrReadOnly"
    /\ perm_in.method = "PATCH"
    /\ perm_in.user.role = "manager"
    /\ perm_last.result = FALSE

\* the first of the attributes user, created_by, owner that the object has
\* ("absent" when it has none)
FirstOwnerAttribute(obj) ==
    IF obj.user # "absent" THEN obj.user
    ELSE IF obj.created_by # "absent" THEN obj.created_by
    ELSE obj.owner

\* C6: IsOwnerOrReadOnly.has_object_permission decides an unsafe request by
\* the first of the attributes user, created_by, owner that the object has:
\* it permits the request if and only if that attribute is the requesting
\* user (so not for an administrator who is not the owner); when the object
\* has none of the three it permits exactly authenticated users with role
\* 'admin'.
C6_OwnerDecides ==
    (/\ perm_last.cls = "IsOwnerOrReadOnly"
     /\ perm_in.method \in {"POST", "PUT", "PATCH", "DELETE"})
    => IF FirstOwnerAttribute(perm_in.obj) # "absent"
       THEN perm_last.result
              <=> /\ perm_in.user.is_authenticated
                  /\ FirstOwnerAttribute(perm_in.obj) = perm_in.user.id
       ELSE perm_last.result <=> AuthenticatedWithRole(perm_in.user, {"admin"})

\* an administrator's DELETE of an object whose user is somebody else was
\* refused, although the object's owner attribute names the administrator
C6_Witness ==
    /\ perm_last.cls = "IsOwnerOrReadOnly"
    /\ perm_in.method = "DELETE"
    /\ perm_in.user.id = "alice"
    /\ perm_in.user.role = "admin"
    /\ perm_in.obj.user = "bob"
    /\ perm_in.obj.owner = "alice"
    /\ perm_last.result = FALSE

\* the quantity of the user's cart row for the product, 0 when there is none
QuantityOf(items, user, product) ==
    IF items[user][product] = <<>> THEN 0 ELSE items[user][product][1]

InSessionCart(sess, product) ==
    \E i \in DOMAIN sess.cart : sess.cart[i].product_id = product

\* C7: when login_view logs a user in whose session holds a non-empty cart,
\* then for every session entry whose product exists the user's cart has
\* one row for the product afterwards, with the quantity it had before (0 if
\* absent) plus the session quantity; the rows of products not in the session
\* cart are unchanged; and the session has no 'cart' key any more.
C7_MergeOnLogin ==
    [][ (/\ shop_last = NoResponse
         /\ shop_last'.op = "login_view"
         /\ shop_last'.status = "logged_in"
         /\ session.has_cart
         /\ session.cart # <<>>)
        => /\ \A i \in DOMAIN session.cart :
                 session.cart[i].product_id \in Product.rows
                 => /\ Len(CartItem'[shop_last'.uid][session.cart[i].product_id]) = 1
                    /\ QuantityOf(CartItem', shop_last'.uid, session.cart[i].product_id)
                         = QuantityOf(CartItem, shop_last'.uid, session.cart[i].product_id)
                           + session.cart[i].quantity
           /\ \A p \in ProductIds :
                 ~InSessionCart(session, p)
                 => CartItem'[shop_last'.uid][p] = CartItem[shop_last'.uid][p]
           /\ ~session'.has_cart
           /\ session'.user = shop_last'.uid ]_vars

\* a login has added a session entry onto a row the user already had
C7_Witness ==
    /\ shop_last.op = "login_view"
    /\ shop_last.status = "logged_in"
    /\ shop_last.onto >= 1
    /\ ~session.has_cart
    /\ \E p \in ProductIds : CartItem[shop_last.uid][p] = <<2>>

\* C8: an account created by register is inactive until activate has
\* succeeded for it (it was called with the account's uid and a token valid
\* for the account); login_view logs in no account before that, and a POST to
\* login_view for a not yet activated account is rejected whatever the
\* password.
C8_NoLoginBeforeActivation ==
    /\ \A u \in UserIds :
          (users[u].state = "row" /\ u \notin activated) => ~users[u].is_active
    /\ (shop_last.op = "login_view" /\ shop_last.status = "logged_in")
          => shop_last.uid \in activated
    /\ session.user # NoUid => session.user \in activated
    /\ (/\ shop_last.op = "login_view"
        /\ shop_last.method = "POST"
        /\ \E u \in UserIds : /\ users[u].state = "row"
                              /\ users[u].email = shop_last.email
                              /\ u \notin activated)
          => shop_last.status \in {"form_invalid", "redirect_home"}

\* a login with the correct password for a registered, not yet activated
\* account has been rejected
C8_Witness ==
    /\ shop_last.op = "login_view"
    /\ shop_last.method = "POST"
    /\ shop_last.password = "correct"
    /\ shop_last.status = "form_invalid"
    /\ session.user = NoUid
    /\ \E u \in UserIds : /\ users[u].state = "row"
                          /\ users[u].email = shop_last.email
                          /\ ~users[u].is_active
                          /\ u \in tokens

\* C9: after any sequence of add_to_cart calls by one requester the cart it
\* fills (the user's rows, or the session list) has at most one entry per
\* product, and the entry's quantity is the sum of the quantities of the
\* add_to_cart calls made for the product.
C9_OneEntryPerProduct ==
    /\ \A u \in UserIds, p \in ProductIds :
          /\ Len(CartItem[u][p]) <= 1
          /\ CartItem[u][p] # <<>> => CartItem[u][p][1] = added[u][p]
    /\ \A i, j \in DOMAIN session.cart :
          session.cart[i].product_id = session.cart[j].product_id => i = j
    /\ \A i \in DOMAIN session.cart :
          session.cart[i].quantity = added[NoUid][session.cart[i].product_id]

\* two calls for one product have left one entry of quantity 2, in a user's
\* cart or in the session
C9_Witness ==
    /\ shop_last.op = "add_to_cart"
    /\ shop_last.status = "added"
    /\ \/ /\ session.user # NoUid
          /\ CartItem[session.user][shop_last.product_id] = <<2>>
          /\ added[session.user][shop_last.product_id] = 2
       \/ /\ session.user = NoUid
          /\ \E i \in DOMAIN session.cart :
                /\ session.cart[i].product_id = shop_last.product_id
                /\ session.cart[i].quantity = 2
          /\ added[NoUid][shop_last.product_id] = 2

\* C10: add_to_cart by a logged-in user leaves the session and every other
\* user's cart and cart rows unchanged; add_to_cart by an anonymous requester
\* leaves every Cart and CartItem row unchanged and changes nothing of the
\* session but its 'cart' list.
C10_AddToCartFrame ==
    [][ (shop_last = NoResponse /\ shop_last'.op = "add_to_cart")
        => IF session.user # NoUid
           THEN /\ session' = session
                /\ \A u \in UserIds \ {session.user} :
                      /\ CartItem'[u] = CartItem[u]
                      /\ (u \in Cart') <=> (u \in Cart)
           ELSE /\ Cart' = Cart
                /\ CartItem' = CartItem
                /\ session'.user = session.user ]_vars

\* a logged-in user whose session still holds a cart list has added a
\* product: the row is in the user's cart, the session list is as it was
C10_Witness ==
    /\ shop_last.op = "add_to_cart"
    /\ shop_last.status = "added"
    /\ session.user # NoUid
    /\ session.has_cart
    /\ session.cart # <<>>
    /\ CartItem[session.user][shop_last.product_id] # <<>>


\* C11: every CartItem row has quantity >= 1 in every state reached through
\* add_to_cart, whatever quantity the request submits (zero and negative
\* integers included).
C11_QuantityAtLeastOne ==
    \A u \in UserIds, p \in ProductIds :
        \A i \in DOMAIN CartItem[u][p] : CartItem[u][p][i] >= 1


\* C15: add_to_cart for a product id that has no Product row ends with a 404
\* and leaves the session, every Cart row and every CartItem row unchanged,
\* for logged-in and anonymous requesters alike.
C15_MissingProduct404 ==
    [][ (/\ shop_last = NoResponse
         /\ shop_last'.op = "add_to_cart"
         /\ shop_last'.product_id \notin Product.rows)
        => /\ shop_last'.status = "not_found"
           /\ session' = session
           /\ Cart' = Cart
           /\ CartItem' = CartItem ]_vars

\* a logged-in user with a cart, whose session still lists a product that
\* has been deleted since, has asked for that product and got the 404
C15_Witness ==
    /\ shop_last.op = "add_to_cart"
    /\ shop_last.status = "not_found"
    /\ session.user # NoUid
    /\ session.user \in Cart
    /\ \E i \in DOMAIN session.cart : session.cart[i].product_id = shop_last.product_id


\* C14: book_delete, publisher_delete, store_delete and review_delete remove
\* the object only on a POST: a request with any other method for an
\* existing object renders the confirmation page and leaves the database
\* unchanged, and a request for a pk without a row returns 404 and changes
\* nothing.
C14_DeleteOnlyOnPost ==
    [][ (web_last = NoPage /\ web_last'.view \in DeleteViews)
        => IF web_last'.pk \notin PkSet(books_db, DeletedModel(web_last'.view))
           THEN /\ web_last'.status = "not_found"
                /\ books_db' = books_db
           ELSE IF web_last'.method = "POST"
                THEN web_last'.pk \notin PkSet(books_db', DeletedModel(web_last'.view))
                ELSE /\ web_last'.status = "confirm_page"
                     /\ books_db' = books_db ]_vars

\* the confirmation page of a book that has a review was opened with GET,
\* and the book and its review are still there
C14_Witness ==
    /\ web_last.view = "book_delete"
    /\ web_last.method = "GET"
    /\ web_last.status = "confirm_page"
    /\ web_last.pk \in PkSet(books_db, "Book")
    /\ \E r \in books_db.Review : r.book = web_last.pk


\* the user table without the rows that carry the email
WithoutEmail(table, email) ==
    [u \in UserIds |->
        IF table[u].state = "row" /\ table[u].email = email THEN NoUser ELSE table[u]]

\* C12: password_reset does not reveal whether an account exists: what the
\* requester sees after a POST with a well-formed email (the redirect to
\* password_reset_done and the flash message) is what it would see if no
\* user had that email.
C12_ResetRevealsNothing ==
    (/\ shop_last.op = "password_reset"
     /\ shop_last.status = "redirect_password_reset_done")
    => \E mail_ok \in BOOLEAN :
          shop_last.message
            = password_reset_message(WithoutEmail(users, shop_last.email),
                                     shop_last.email, mail_ok)


\* C13: account_delete_confirm deletes a user only on a POST whose uid names
\* a user row and whose token is valid for that user, and then only that
\* user; a GET with a valid link shows the confirmation page and deletes
\* nothing; a request whose uid names no user or whose token is not valid
\* for the user deletes nothing and leaves every user unchanged.
C13_DeleteOnlyOnValidPost ==
    [][ (shop_last = NoResponse /\ shop_last'.op = "account_delete_confirm")
        => LET r == shop_last'
               valid == /\ r.uid \in UserIds
                        /\ users[r.uid].state = "row"
                        /\ r.token = r.uid
                        /\ r.uid \in tokens
                        /\ ~r.expired
           IN /\ users' # users
                    => /\ r.method = "POST"
                       /\ valid
                       /\ users' = [users EXCEPT ![r.uid] = NoUser]
              /\ (valid /\ r.method = "POST") => users'[r.uid] = NoUser
              /\ (valid /\ r.method # "POST")
                    => r.status = "confirm_page" /\ users' = users
              /\ ~valid => r.status = "invalid_link" /\ users' = users ]_vars

\* the link mailed to a logged-in user was opened with GET: the confirmation
\* page is shown and the account is still there
C13_Witness ==
    /\ shop_last.op = "account_delete_confirm"
    /\ shop_last.method = "GET"
    /\ shop_last.status = "confirm_page"
    /\ shop_last.uid \in activated
    /\ users[shop_last.uid].state = "row"
    /\ session.user = shop_last.uid

====
